---- MODULE Spec2Model ----
(***************************************************************************)
(* ConcurrencyController of Backend/utils/concurrency.util.js: a priority  *)
(* task queue, a bounded map of running tasks, per-task retry and timeout, *)
(* cancellation and statistics.                                            *)
(*                                                                         *)
(* JavaScript runs one handler at a time, so every public call and every   *)
(* continuation of an await is one atomic action.  A task body is opaque:  *)
(* once invoked it may resolve, reject, or never settle.                   *)
(***************************************************************************)
EXTENDS Integers, Sequences, FiniteSets, TLC

\* number of addTask calls in a behaviour
MaxTasks == 3

\* task handles, in order of submission; a task's id is its handle
Tasks == 1..MaxTasks
Ids == Tasks

\* the maxConcurrency option given to the constructor
ConcurrencyChoices == {1, 2}

\* a descriptor's priority: absent, or a number
NoPriority == [has |-> FALSE, val |-> 0]
Prio(n) == [has |-> TRUE, val |-> n]
PriorityChoices == {NoPriority, Prio(0), Prio(10)}

\* the descriptors submitted: a priority, or a retry budget, or neither;
\* valid: "ok", or which required field is missing; observers: "absent"
\* when the descriptor has no onSuccess/onError/onComplete
DescriptorChoices ==
  {[priority |-> p, retries |-> 0, valid |-> "ok", observers |-> "absent"] :
     p \in PriorityChoices}
    \cup {[priority |-> NoPriority, retries |-> 2, valid |-> "ok",
           observers |-> "absent"]}

\* descriptors with all three observer callbacks: none of them throws
\* ("quiet"), or the named one throws whenever it is called; and
\* descriptors without id or without task
\* the last reading of the clock
MaxTime == 5

\* the largest retry budget a descriptor asks for
MaxRetries == 2

ObserverChoices == {"quiet", "onSuccessThrows", "onErrorThrows", "onCompleteThrows"}

CallbackDescriptorChoices ==
  {[priority |-> NoPriority, retries |-> 0, valid |-> "ok", observers |-> o] :
     o \in ObserverChoices}
    \cup {[priority |-> NoPriority, retries |-> 0, valid |-> v,
           observers |-> "absent"] : v \in {"noId", "noTask"}}

\* the listener functions there are, and what a listener does when it is
\* called: return, throw, or call off() on itself
MaxListeners == 3

Listeners == 1..MaxListeners

ListenerChoices == {"returns", "throws", "offSelf"}

\* and listeners that call off() on another listener: the one registered
\* last at that moment (itself, when it is the last)
RemovingListenerChoices == ListenerChoices \cup {"offLast"}

\* options.maxConcurrency || 5
DefaultMaxConcurrency == 5

\* options.maxQueueSize || 1000
DefaultMaxQueueSize == 1000

\* the maxQueueSize option of a controller with a short queue
SmallQueueSize == 2

VARIABLES
  maxConcurrency,  \* this.maxConcurrency
  maxQueueSize,    \* this.maxQueueSize
  taskQueue,       \* this.taskQueue: the queued task objects
  runningTasks,    \* this.runningTasks: Map id -> task handle
  completedTasks,  \* this.completedTasks: Map id -> TaskResult
  isRunning,       \* this.isRunning
  isPaused,        \* this.isPaused
  stats,           \* this.stats
  emitted,         \* how many times emit was called, per event name
  eventListeners,  \* this.eventListeners.get('taskAdded')
  heard,           \* the listeners the latest emit('taskAdded') invoked
  batch,           \* the promise addTasks returned, and the tasks it is about
  limit,           \* one call of ConcurrencyUtils.limitConcurrency
  pool,            \* one task pool of ConcurrencyUtils.createTaskPool
  tasks,           \* per handle: the executeTask/runTaskWithRetry activation,
                   \* the submitter's promise, and how often the body ran
  now,             \* what Date.now() returns: 0 where nobody watches the
                   \* clock, and then a time not set reads 0 as well
  http             \* an HttpClient and the request it is carrying out

vars == <<maxConcurrency, maxQueueSize, taskQueue, runningTasks,
          completedTasks, isRunning, isPaused, stats, emitted,
          eventListeners, heard, batch, limit, pool, tasks, now,
          http>>

----------------------------------------------------------------------------
\* Map helpers

MapSet(m, k, v) == [x \in (DOMAIN m) \cup {k} |-> IF x = k THEN v ELSE m[x]]

MapDelete(m, k) == [x \in (DOMAIN m) \ {k} |-> m[x]]

EmptyMap == [x \in {} |-> 0]

\* array.splice(i, 1)
RemoveAt(queue, i) == SubSeq(queue, 1, i - 1) \o SubSeq(queue, i + 1, Len(queue))

\* the task functions handed to limitConcurrency, and the concurrency asked
MaxJobs == 4

Jobs == 1..MaxJobs

LimitChoices == {1, 2, 3}

\* limitConcurrency has not been called.  pc: where the async function is;
\* i: how many tasks the for loop has taken; executing: the array, of the
\* jobs whose promise it holds; raced, race: the promises given to the
\* pending Promise.race and its state; job: each task function's promise;
\* started: how often each was called; output: the array returned
NotCalled ==
  [pc |-> "idle", concurrency |-> 0, i |-> 0, executing |-> << >>,
   raced |-> {}, race |-> "none",
   job |-> [j \in Jobs |-> "notStarted"], started |-> [j \in Jobs |-> 0],
   output |-> << >>]

\* the pool sizes asked of createTaskPool
PoolChoices == {1, 2}

\* createTaskPool has not been called.  busy: the workers that are busy;
\* queue: the closure's queue, of the jobs whose wrapper it holds; job: for
\* each task given to execute, its task function's promise (body), the
\* promise execute returned with the value it settled with, and how often
\* the task function was called
NoPool ==
  [poolSize |-> 0, busy |-> {}, queue |-> << >>,
   job |-> [j \in Jobs |-> [body |-> "none", promise |-> "none", value |-> 0,
                            worker |-> 0, started |-> 0]]]

\* addTasks has not been called
NoBatch == [first |-> 0, size |-> 0, future |-> "none", outcomes |-> << >>]

Min(S) == CHOOSE x \in S : \A y \in S : x <= y

\* A promise settles once: resolve/reject on a settled promise does nothing.
Settle(future, outcome) == IF future = "pending" THEN outcome ELSE future

----------------------------------------------------------------------------
\* The controller's state as one value, so that handlers compose.

\* config.retries of a request: absent, or a number
NoRetries == [has |-> FALSE, val |-> 0]

\* options.retryDelay || 1000
DefaultRetryDelay == 1000

\* An HttpClient.  retries, retryDelay: this.retries, this.retryDelay; pc:
\* where request() is; config: the retries of the config the current call
\* of request() was given; attempts: the calls of fetch made for the
\* request; delays: the retry delays waited, and waited: their sum in ms;
\* error: what the request threw
HttpClientWith(retries, retryDelay) ==
  [retries |-> retries, retryDelay |-> retryDelay, pc |-> "idle",
   config |-> NoRetries, attempts |-> 0, delays |-> 0, waited |-> 0,
   error |-> "none"]

\* where no HttpClient is looked at: new HttpClient()
NoClient == HttpClientWith(0, DefaultRetryDelay)

Cur ==
  [maxConcurrency |-> maxConcurrency, maxQueueSize |-> maxQueueSize,
   taskQueue |-> taskQueue,
   runningTasks |-> runningTasks, completedTasks |-> completedTasks,
   isRunning |-> isRunning, isPaused |-> isPaused, stats |-> stats,
   emitted |-> emitted, eventListeners |-> eventListeners, heard |-> heard,
   batch |-> batch, limit |-> limit, pool |-> pool,
   tasks |-> tasks, now |-> now, http |-> http]

Becomes(s) ==
  \E x \in {s} :
    /\ maxConcurrency' = x.maxConcurrency
    /\ maxQueueSize' = x.maxQueueSize
    /\ taskQueue' = x.taskQueue
    /\ runningTasks' = x.runningTasks
    /\ completedTasks' = x.completedTasks
    /\ isRunning' = x.isRunning
    /\ isPaused' = x.isPaused
    /\ stats' = x.stats
    /\ emitted' = x.emitted
    /\ eventListeners' = x.eventListeners
    /\ heard' = x.heard
    /\ batch' = x.batch
    /\ limit' = x.limit
    /\ pool' = x.pool
    /\ tasks' = x.tasks
    /\ now' = x.now
    /\ http' = x.http

\* A handle before addTask.  pc: where the task is; attempts: task.attempts;
\* maxRetries, attempt: the locals of runTaskWithRetry; aborted: the signal
\* of the AbortController executeTask made; timer: its timeout; future: the
\* promise addTask returned; invoked: how many times the body was called;
\* observers: the task's callbacks; caught: what the catch block of
\* executeTask caught; cancelled: cancelTask took the task out of
\* runningTasks while executeTask was still going; settledWith: the
\* TaskResult the promise was resolved or rejected with.
NoResult == [id |-> 0, success |-> FALSE, data |-> 0, retryCount |-> 0]

Unsubmitted ==
  [pc |-> "unsubmitted", id |-> 0, attempts |-> 0, maxRetries |-> 0, attempt |-> 0,
   aborted |-> FALSE, timer |-> "none", future |-> "none", invoked |-> 0,
   observers |-> "absent", caught |-> "none", cancelled |-> FALSE,
   settledWith |-> NoResult]

\* Once executeTask has finished its locals are gone and nothing reads the
\* task's signal, timer or callbacks any more: they are not kept.
Finished(t) ==
  [t EXCEPT !.pc = "finished", !.maxRetries = 0, !.attempt = 0,
            !.aborted = FALSE, !.timer = "none", !.observers = "absent",
            !.caught = "none", !.cancelled = FALSE]

\* no handler of the controller is in the middle of calling back
Idle == \A h \in Tasks : tasks[h].pc \notin {"onSuccess", "onError"}

Init ==
  /\ maxConcurrency \in ConcurrencyChoices
  /\ maxQueueSize = DefaultMaxQueueSize
  /\ taskQueue = << >>
  /\ runningTasks = EmptyMap
  /\ completedTasks = EmptyMap
  /\ isRunning = FALSE
  /\ isPaused = FALSE
  /\ stats = [totalTasks |-> 0, completedTasks |-> 0, failedTasks |-> 0,
              retriedTasks |-> 0, startTime |-> 0, endTime |-> 0]
  /\ emitted = [taskAdded |-> 0, taskCompleted |-> 0, taskFailed |-> 0]
  /\ eventListeners = << >>
  /\ heard = << >>
  /\ batch = NoBatch
  /\ limit = NotCalled
  /\ pool = NoPool
  /\ tasks = [h \in Tasks |-> Unsubmitted]
  /\ now = 0
  /\ http = NoClient

\* a controller constructed while the clock reads 1
InitClock ==
  /\ maxConcurrency \in ConcurrencyChoices
  /\ maxQueueSize = DefaultMaxQueueSize
  /\ taskQueue = << >>
  /\ runningTasks = EmptyMap
  /\ completedTasks = EmptyMap
  /\ isRunning = FALSE
  /\ isPaused = FALSE
  /\ stats = [totalTasks |-> 0, completedTasks |-> 0, failedTasks |-> 0,
              retriedTasks |-> 0, startTime |-> 0, endTime |-> 0]
  /\ emitted = [taskAdded |-> 0, taskCompleted |-> 0, taskFailed |-> 0]
  /\ eventListeners = << >>
  /\ heard = << >>
  /\ batch = NoBatch
  /\ limit = NotCalled
  /\ pool = NoPool
  /\ tasks = [h \in Tasks |-> Unsubmitted]
  /\ now = 1
  /\ http = NoClient

\* the module's default instance: new ConcurrencyController()
InitDefault ==
  /\ maxConcurrency = DefaultMaxConcurrency
  /\ maxQueueSize = DefaultMaxQueueSize
  /\ taskQueue = << >>
  /\ runningTasks = EmptyMap
  /\ completedTasks = EmptyMap
  /\ isRunning = FALSE
  /\ isPaused = FALSE
  /\ stats = [totalTasks |-> 0, completedTasks |-> 0, failedTasks |-> 0,
              retriedTasks |-> 0, startTime |-> 0, endTime |-> 0]
  /\ emitted = [taskAdded |-> 0, taskCompleted |-> 0, taskFailed |-> 0]
  /\ eventListeners = << >>
  /\ heard = << >>
  /\ batch = NoBatch
  /\ limit = NotCalled
  /\ pool = NoPool
  /\ tasks = [h \in Tasks |-> Unsubmitted]
  /\ now = 0
  /\ http = NoClient

\* a controller made with maxConcurrency: 1 and a short queue
InitCallbacks ==
  /\ maxConcurrency = Min(ConcurrencyChoices)
  /\ maxQueueSize = SmallQueueSize
  /\ taskQueue = << >>
  /\ runningTasks = EmptyMap
  /\ completedTasks = EmptyMap
  /\ isRunning = FALSE
  /\ isPaused = FALSE
  /\ stats = [totalTasks |-> 0, completedTasks |-> 0, failedTasks |-> 0,
              retriedTasks |-> 0, startTime |-> 0, endTime |-> 0]
  /\ emitted = [taskAdded |-> 0, taskCompleted |-> 0, taskFailed |-> 0]
  /\ eventListeners = << >>
  /\ heard = << >>
  /\ batch = NoBatch
  /\ limit = NotCalled
  /\ pool = NoPool
  /\ tasks = [h \in Tasks |-> Unsubmitted]
  /\ now = 0
  /\ http = NoClient

----------------------------------------------------------------------------
\* insertTaskByPriority.  A queued task object is [h, id, priority, retries]
\* and arrivedBlocked: whether addTask found the controller running with
\* every slot taken.

\* task.priority || 0
PriorityOrZero(p) == IF p.has THEN p.val ELSE 0

\* this.taskQueue[i].priority >= priority: false when the queued task has
\* no priority (undefined >= n is false)
QueuedAtLeast(p, n) == p.has /\ p.val >= n

\* the loop: the last index whose task has at least this priority, else
\* the initial value taskQueue.length
InsertIndex(queue, priority) ==
  LET found == {i \in 1..Len(queue) : QueuedAtLeast(queue[i].priority, priority)}
  IN IF found = {} THEN Len(queue)
     ELSE CHOOSE i \in found : \A j \in found : j <= i

InsertTaskByPriority(queue, task) ==
  LET priority == PriorityOrZero(task.priority)
      insertIndex == InsertIndex(queue, priority)
  IN SubSeq(queue, 1, insertIndex) \o <<task>>
       \o SubSeq(queue, insertIndex + 1, Len(queue))

----------------------------------------------------------------------------
\* processNextTask, executeTask, runTaskWithRetry

RECURSIVE ProcessNextTask(_)
RECURSIVE RunAttempt(_, _, _)

\* processNextTask without its check of runningTasks.size
CannotProcess_NoSizeCheck(s) == ~s.isRunning \/ s.isPaused

\* processNextTask without its check of isPaused
CannotProcess_NoPauseCheck(s) ==
  \/ ~s.isRunning
  \/ Cardinality(DOMAIN s.runningTasks) >= s.maxConcurrency

\* the guard of processNextTask
CannotProcess(s) ==
  \/ ~s.isRunning
  \/ s.isPaused
  \/ Cardinality(DOMAIN s.runningTasks) >= s.maxConcurrency

\* the loop condition written with < for <=
LoopContinues_Strict(attempt, maxRetries) == attempt < maxRetries

\* the loop condition of runTaskWithRetry
LoopContinues(attempt, maxRetries) == attempt <= maxRetries

\* "not the last attempt": wait and retry
NotLastAttempt(attempt, maxRetries) == attempt < maxRetries

\* TaskResult.retryCount as executeTask computes it
RetryCount(t) == t.attempts - 1

\* a finally block that frees the slot and does not call processNextTask
Finally_NoNext(s, h, id) ==
  [s EXCEPT !.runningTasks = MapDelete(@, id), !.tasks[h] = Finished(@)]

\* finally { runningTasks.delete(task.id); processNextTask() }
Finally(s, h, id) ==
  ProcessNextTask([s EXCEPT !.runningTasks = MapDelete(@, id),
                            !.tasks[h] = Finished(@)])

\* the TaskResult executeTask builds; the value the n-th invocation of a
\* body fulfils with is n, and a failure record has no data
TaskResult(s, h, id, success) ==
  [id |-> id, success |-> success,
   data |-> IF success THEN s.tasks[h].invoked ELSE 0,
   retryCount |-> RetryCount(s.tasks[h])]

\* the success path up to the callbacks: clearTimeout, completedTasks.set,
\* stats.completedTasks++
SuccessRecorded(s, h, id) ==
  [s EXCEPT
     !.tasks[h].timer = IF @ = "armed" THEN "cleared" ELSE @,
     !.completedTasks = MapSet(@, id, TaskResult(s, h, id, TRUE)),
     !.stats.completedTasks = @ + 1]

\* the success path after the callbacks: task.resolve(taskResult),
\* emit('taskCompleted'), finally
SuccessNotified(s, h, id) ==
  Finally([s EXCEPT
             !.tasks[h].future = Settle(@, "resolved"),
             !.tasks[h].settledWith = TaskResult(s, h, id, TRUE),
             !.emitted.taskCompleted = @ + 1], h, id)

\* the catch block without its completedTasks.set
FailureRecorded_NoStore(s, h, id, caught) ==
  [s EXCEPT
     !.stats.failedTasks = @ + 1,
     !.tasks[h].caught = caught]

\* the catch block up to the callbacks: completedTasks.set,
\* stats.failedTasks++; caught tells whose error it handles
FailureRecorded(s, h, id, caught) ==
  [s EXCEPT
     !.completedTasks = MapSet(@, id, TaskResult(s, h, id, FALSE)),
     !.stats.failedTasks = @ + 1,
     !.tasks[h].caught = caught]

\* the catch block after the callbacks: task.reject(taskResult),
\* emit('taskFailed'), finally
FailureNotified(s, h, id) ==
  Finally([s EXCEPT
             !.tasks[h].future = Settle(@, "rejectedFailed"),
             !.tasks[h].settledWith = TaskResult(s, h, id, FALSE),
             !.emitted.taskFailed = @ + 1], h, id)

\* executeTask after runTaskWithRetry returned a result; with callbacks it
\* is now inside onSuccess and onComplete
FinishSuccess(s, h, id) ==
  LET s1 == SuccessRecorded(s, h, id)
  IN IF s.tasks[h].observers = "absent"
     THEN SuccessNotified(s1, h, id)
     ELSE [s1 EXCEPT !.tasks[h].pc = "onSuccess"]

\* executeTask after runTaskWithRetry threw; with callbacks it is now
\* inside onError and onComplete
FinishFailure(s, h, id) ==
  LET s1 == FailureRecorded(s, h, id, "body")
  IN IF s.tasks[h].observers = "absent"
     THEN FailureNotified(s1, h, id)
     ELSE [s1 EXCEPT !.tasks[h].pc = "onError"]

\* onSuccess and onComplete have been called on the success path: a throw
\* of either goes to the catch block, which calls onError and onComplete
SuccessCallbacksDone(s, h, id) ==
  IF s.tasks[h].observers \in {"onSuccessThrows", "onCompleteThrows"}
  THEN [FailureRecorded(s, h, id, "observer") EXCEPT !.tasks[h].pc = "onError"]
  ELSE SuccessNotified(s, h, id)

\* onError and onComplete have been called in the catch block: a throw of
\* either leaves the block, and only finally still runs
FailureCallbacksDone(s, h, id) ==
  IF s.tasks[h].observers \in {"onErrorThrows", "onCompleteThrows"}
  THEN Finally(s, h, id)
  ELSE FailureNotified(s, h, id)

\* a catch block that counts every failed attempt as a failed task
AttemptFailed_CountsFailure(s, h, id) ==
  LET t == s.tasks[h]
  IN IF NotLastAttempt(t.attempt, t.maxRetries)
     THEN [s EXCEPT !.stats.retriedTasks = @ + 1, !.stats.failedTasks = @ + 1,
                    !.tasks[h].pc = "delay"]
     ELSE FinishFailure(s, h, id)

\* the catch block of runTaskWithRetry
AttemptFailed(s, h, id) ==
  LET t == s.tasks[h]
  IN IF NotLastAttempt(t.attempt, t.maxRetries)
     THEN [s EXCEPT !.stats.retriedTasks = @ + 1, !.tasks[h].pc = "delay"]
     ELSE FinishFailure(s, h, id)

\* one pass of the for loop of runTaskWithRetry, from its condition
RunAttempt(s, h, id) ==
  LET t == s.tasks[h]
  IN IF ~LoopContinues(t.attempt, t.maxRetries)
     THEN FinishFailure(s, h, id)
     ELSE IF t.aborted
          THEN AttemptFailed(s, h, id)
          ELSE [s EXCEPT !.tasks[h].pc = "body", !.tasks[h].invoked = @ + 1]

\* executeTask up to its first await; task.retries || 0
ExecuteTask(s, task) ==
  LET h == task.h
      s1 == [s EXCEPT
               !.tasks[h].attempts = @ + 1,
               !.tasks[h].aborted = FALSE,
               !.tasks[h].timer = "armed",
               !.tasks[h].maxRetries = task.retries,
               !.tasks[h].attempt = 0,
               !.tasks[h].observers = task.observers,
               !.runningTasks = MapSet(@, task.id, h)]
  IN RunAttempt(s1, h, task.id)

\* processNextTask that reads the head of the queue without shifting it
ProcessNextTask_NoShift(s) ==
  IF CannotProcess(s) THEN s
  ELSE IF s.taskQueue = << >> THEN s
  ELSE ExecuteTask(s, Head(s.taskQueue))

ProcessNextTask(s) ==
  IF CannotProcess(s) THEN s
  ELSE IF s.taskQueue = << >> THEN s
  ELSE ExecuteTask([s EXCEPT !.taskQueue = Tail(@)], Head(s.taskQueue))

----------------------------------------------------------------------------
\* Public calls

\* !taskConfig.id
InvalidConfig_IdOnly(d) == d.valid = "noId"

\* !taskConfig.id || !taskConfig.task
InvalidConfig(d) == d.valid \in {"noId", "noTask"}

\* the queue check written with > for >=
QueueFull_Strict(s) == Len(s.taskQueue) > s.maxQueueSize

\* this.taskQueue.length >= this.maxQueueSize
QueueFull(s) == Len(s.taskQueue) >= s.maxQueueSize

\* reject(new Error(...)); return
RejectTask(s, h, error) ==
  [s EXCEPT !.tasks[h].pc = "rejected", !.tasks[h].future = error]

\* listeners.indexOf(listener), 0 for -1
ListenerIndex(listeners, l) ==
  LET found == {i \in 1..Len(listeners) : listeners[i].id = l}
  IN IF found = {} THEN 0 ELSE CHOOSE i \in found : \A j \in found : i <= j

\* off(event, listener)
OffCall(listeners, l) ==
  IF ListenerIndex(listeners, l) = 0 THEN listeners
  ELSE RemoveAt(listeners, ListenerIndex(listeners, l))

\* try { listener(...args) } catch: what the call leaves of the array
ListenerRuns(listeners, listener) ==
  IF listener.does = "offSelf" THEN OffCall(listeners, listener.id)
  ELSE IF listener.does = "offLast" /\ listeners # << >>
       THEN OffCall(listeners, listeners[Len(listeners)].id)
  ELSE listeners

\* listeners.forEach: indices 1..len of the array as it is when each index
\* comes up, len being the length when forEach was called
RECURSIVE ForEach(_, _, _, _)
ForEach(listeners, k, len, called) ==
  IF k > len THEN [listeners |-> listeners, called |-> called]
  ELSE IF k > Len(listeners) THEN ForEach(listeners, k + 1, len, called)
  ELSE ForEach(ListenerRuns(listeners, listeners[k]), k + 1, len,
               Append(called, listeners[k].id))

\* emit('taskAdded', task)
EmitTaskAdded(s) ==
  LET done == ForEach(s.eventListeners, 1, Len(s.eventListeners), << >>)
  IN [s EXCEPT !.emitted.taskAdded = @ + 1,
               !.eventListeners = done.listeners,
               !.heard = done.called]

\* config.id: a descriptor that does not say which id it carries has an id
\* of its own, written as its handle
TaskId(h, d) == IF "id" \in DOMAIN d THEN d.id ELSE h

\* the task object is built and queued: insertTaskByPriority,
\* stats.totalTasks++, emit('taskAdded')
Enqueued(s, h, d) ==
  LET task == [h |-> h, id |-> TaskId(h, d), priority |-> d.priority,
               retries |-> d.retries, observers |-> d.observers,
               arrivedBlocked |-> s.isRunning /\ ~s.isPaused /\
                  Cardinality(DOMAIN s.runningTasks) >= s.maxConcurrency]
  IN EmitTaskAdded([s EXCEPT
        !.tasks[h].pc = "queued",
        !.tasks[h].id = task.id,
        !.tasks[h].future = "pending",
        !.taskQueue = InsertTaskByPriority(@, task),
        !.stats.totalTasks = @ + 1])

\* addTask that queues the task and never calls processNextTask
AddTaskCall_NoSchedule(s, h, d) ==
  IF InvalidConfig(d) THEN RejectTask(s, h, "rejectedInvalid")
  ELSE IF QueueFull(s) THEN RejectTask(s, h, "rejectedQueueFull")
  ELSE Enqueued(s, h, d)

\* the body of the promise executor of addTask
AddTaskCall(s, h, d) ==
  IF InvalidConfig(d) THEN RejectTask(s, h, "rejectedInvalid")
  ELSE IF QueueFull(s) THEN RejectTask(s, h, "rejectedQueueFull")
  ELSE IF s.isRunning /\ ~s.isPaused
       THEN ProcessNextTask(Enqueued(s, h, d))
       ELSE Enqueued(s, h, d)

\* addTask with descriptor d; h is the handle of the new task object
AddTask(h, d) ==
  /\ tasks[h].pc = "unsubmitted"
  /\ \A g \in Tasks : g < h => tasks[g].pc # "unsubmitted"
  /\ Becomes(AddTaskCall(Cur, h, d))

\* taskConfigs.map(config => this.addTask(config)): the executors run one
\* after the other, each to its end
RECURSIVE SubmitAll(_, _, _)
SubmitAll(s, h, configs) ==
  IF configs = << >> THEN s
  ELSE SubmitAll(AddTaskCall(s, h, Head(configs)), h + 1, Tail(configs))

\* addTasks(taskConfigs), once; the new task objects get the next handles
AddTasks(configs) ==
  /\ batch.future = "none"
  /\ \E h \in Tasks :
       /\ tasks[h].pc = "unsubmitted"
       /\ \A g \in Tasks : g < h => tasks[g].pc # "unsubmitted"
       /\ h + Len(configs) - 1 \in Tasks
       /\ Becomes([SubmitAll(Cur, h, configs) EXCEPT
                     !.batch = [first |-> h, size |-> Len(configs),
                                future |-> "pending", outcomes |-> << >>]])

\* Promise.all in the place of Promise.allSettled: rejected with the first
\* rejection
BatchOutcome_PromiseAll(futures) ==
  IF \E i \in 1..Len(futures) : futures[i] # "resolved"
  THEN [future |-> "rejected", outcomes |-> << >>]
  ELSE [future |-> "fulfilled",
        outcomes |-> [i \in 1..Len(futures) |->
                        [status |-> "fulfilled", value |-> futures[i]]]]

\* Promise.allSettled(promises) once every promise has settled
BatchOutcome(futures) ==
  [future |-> "fulfilled",
   outcomes |-> [i \in 1..Len(futures) |->
                   [status |-> IF futures[i] = "resolved" THEN "fulfilled"
                               ELSE "rejected",
                    value |-> futures[i]]]]

\* the promises of the batch, in the order of taskConfigs
BatchFutures(s) ==
  [i \in 1..s.batch.size |-> s.tasks[s.batch.first + i - 1].future]

\* the last promise of the batch has settled
BatchSettles ==
  /\ batch.future = "pending"
  /\ \A i \in 1..batch.size : BatchFutures(Cur)[i] # "pending"
  /\ Becomes([Cur EXCEPT
       !.batch.future = BatchOutcome(BatchFutures(Cur)).future,
       !.batch.outcomes = BatchOutcome(BatchFutures(Cur)).outcomes])

\* on('taskAdded', listener) with a function not registered at present
On(l, does) ==
  /\ ListenerIndex(eventListeners, l) = 0
  /\ Becomes([Cur EXCEPT !.eventListeners = Append(@, [id |-> l, does |-> does])])

\* off('taskAdded', listener)
Off(l) ==
  /\ Becomes([Cur EXCEPT !.eventListeners = OffCall(@, l)])

\* start(); a call on a running controller returns at once
Start ==
  /\ ~isRunning
  /\ Becomes(ProcessNextTask([Cur EXCEPT !.isRunning = TRUE, !.isPaused = FALSE,
                                         !.stats.startTime = now]))

\* pause() that also aborts the signal of every running task
PauseCall_Aborting(s) ==
  [s EXCEPT !.isPaused = TRUE,
            !.tasks = [h \in Tasks |->
                         IF \E id \in DOMAIN s.runningTasks : s.runningTasks[id] = h
                         THEN [s.tasks[h] EXCEPT !.aborted = TRUE]
                         ELSE s.tasks[h]]]

PauseCall(s) == [s EXCEPT !.isPaused = TRUE]

Pause ==
  /\ Becomes(PauseCall(Cur))

Resume ==
  /\ Becomes(ProcessNextTask([Cur EXCEPT !.isPaused = FALSE]))

\* stop() that leaves the running tasks' signals alone
AbortAll_None(ts, running) == ts

\* abortController.abort() on every running task
AbortAll(ts, running) ==
  [h \in Tasks |->
     IF \E id \in DOMAIN running : running[id] = h
     THEN [ts[h] EXCEPT !.aborted = TRUE]
     ELSE ts[h]]

Stop ==
  /\ Becomes([Cur EXCEPT !.isRunning = FALSE, !.isPaused = FALSE,
                         !.stats.endTime = now,
                         !.tasks = AbortAll(@, runningTasks)])

\* cancelTask: the branch for a running task
CancelRunning(s, id) ==
  [state |-> [s EXCEPT !.tasks[s.runningTasks[id]].aborted = TRUE,
                       !.tasks[s.runningTasks[id]].cancelled = TRUE,
                       !.runningTasks = MapDelete(@, id)],
   result |-> TRUE]

\* taskQueue.findIndex(task => task.id === taskId), 0 for -1
QueueIndex(queue, id) ==
  LET found == {i \in 1..Len(queue) : queue[i].id = id}
  IN IF found = {} THEN 0 ELSE CHOOSE i \in found : \A j \in found : i <= j

\* the queued branch without the splice: the task is rejected but stays queued
CancelQueued_NoSplice(s, id) ==
  LET queueIndex == QueueIndex(s.taskQueue, id)
      h == s.taskQueue[queueIndex].h
  IN [state |-> [s EXCEPT !.tasks[h].future = Settle(@, "rejectedCancelled")],
      result |-> TRUE]

\* cancelTask: the branch for a queued task
CancelQueued(s, id) ==
  LET queueIndex == QueueIndex(s.taskQueue, id)
      h == s.taskQueue[queueIndex].h
  IN [state |-> [s EXCEPT !.taskQueue = RemoveAt(@, queueIndex),
                          !.tasks[h].pc = "cancelled",
                          !.tasks[h].future = Settle(@, "rejectedCancelled")],
      result |-> TRUE]

\* cancelTask that answers true for an id it did not find
CancelTaskCall_TrueWhenAbsent(s, id) ==
  IF id \in DOMAIN s.runningTasks THEN CancelRunning(s, id)
  ELSE IF QueueIndex(s.taskQueue, id) # 0 THEN CancelQueued(s, id)
  ELSE [state |-> s, result |-> TRUE]

\* cancelTask(taskId): the state it leaves and the value it returns
CancelTaskCall(s, id) ==
  IF id \in DOMAIN s.runningTasks THEN CancelRunning(s, id)
  ELSE IF QueueIndex(s.taskQueue, id) # 0 THEN CancelQueued(s, id)
  ELSE [state |-> s, result |-> FALSE]

CancelTask(id) ==
  /\ Becomes(CancelTaskCall(Cur, id).state)

\* clearQueue() that rejects the queued tasks and keeps them queued
ClearQueue_KeepsQueue ==
  /\ Becomes([Cur EXCEPT
       !.tasks = [h \in Tasks |->
                    IF \E i \in 1..Len(taskQueue) : taskQueue[i].h = h
                    THEN [tasks[h] EXCEPT !.pc = "cleared",
                                          !.future = Settle(@, "rejectedCleared")]
                    ELSE tasks[h]]])

ClearQueue ==
  /\ Becomes([Cur EXCEPT
       !.tasks = [h \in Tasks |->
                    IF \E i \in 1..Len(taskQueue) : taskQueue[i].h = h
                    THEN [tasks[h] EXCEPT !.pc = "cleared",
                                          !.future = Settle(@, "rejectedCleared")]
                    ELSE tasks[h]],
       !.taskQueue = << >>])

\* getTaskStatus that looks in the queue before the completed map
GetTaskStatus_QueueFirst(s, id) ==
  IF id \in DOMAIN s.runningTasks THEN [status |-> "running"]
  ELSE IF QueueIndex(s.taskQueue, id) # 0 THEN [status |-> "queued"]
  ELSE IF id \in DOMAIN s.completedTasks
       THEN [status |-> "completed", result |-> s.completedTasks[id]]
  ELSE [status |-> "null"]

\* getTaskStatus(taskId): running, else completed, else queued, else null
GetTaskStatus(s, id) ==
  IF id \in DOMAIN s.runningTasks THEN [status |-> "running"]
  ELSE IF id \in DOMAIN s.completedTasks
       THEN [status |-> "completed", result |-> s.completedTasks[id]]
  ELSE IF QueueIndex(s.taskQueue, id) # 0 THEN [status |-> "queued"]
  ELSE [status |-> "null"]

\* the call getTaskStatus(taskId): the state it leaves and what it returns
GetTaskStatusCall(s, id) == [state |-> s, result |-> GetTaskStatus(s, id)]

\* endTime || now
EndOrNow(s) == IF s.stats.endTime # 0 THEN s.stats.endTime ELSE s.now

\* getStats(): the stats counters, of which completedTasks is replaced by
\* the size of the completed map, with the duration
\* startTime ? (endTime || now) - startTime : 0
GetStats(s) ==
  [totalTasks |-> s.stats.totalTasks,
   startTime |-> s.stats.startTime,
   endTime |-> s.stats.endTime,
   duration |-> IF s.stats.startTime # 0
                THEN EndOrNow(s) - s.stats.startTime ELSE 0,
   failedTasks |-> s.stats.failedTasks,
   retriedTasks |-> s.stats.retriedTasks,
   queueSize |-> Len(s.taskQueue),
   runningTasks |-> Cardinality(DOMAIN s.runningTasks),
   completedTasks |-> Cardinality(DOMAIN s.completedTasks),
   isRunning |-> s.isRunning,
   isPaused |-> s.isPaused]

----------------------------------------------------------------------------
\* ConcurrencyUtils.limitConcurrency(tasks, concurrency); the result of
\* task function j is j

\* const promise = task().then(...); results.push; executing.push
StartJob(l, j) ==
  [l EXCEPT !.job[j] = "pending", !.started[j] = @ + 1,
            !.executing = Append(@, j), !.i = j]

\* the for loop from its head to the next await, or to Promise.all(results)
RECURSIVE RunLoop(_)
RunLoop(l) ==
  IF l.i = MaxJobs THEN [l EXCEPT !.pc = "all"]
  ELSE LET l1 == StartJob(l, l.i + 1)
           members == {l1.executing[k] : k \in 1..Len(l1.executing)}
       IN IF Len(l1.executing) >= l1.concurrency
          THEN [l1 EXCEPT !.pc = "racing", !.raced = members,
                          !.race = IF \E j \in members : l1.job[j] = "rejected"
                                   THEN "rejected" ELSE "pending"]
          ELSE RunLoop(l1)

\* executing.splice(executing.indexOf(promise), 1)
Splice(executing, j) ==
  LET found == {k \in 1..Len(executing) : executing[k] = j}
  IN IF found = {} THEN SubSeq(executing, 1, Len(executing) - 1)
     ELSE RemoveAt(executing, CHOOSE k \in found : \A m \in found : k <= m)

\* the call
LimitConcurrency(c) ==
  /\ limit.pc = "idle"
  /\ Becomes([Cur EXCEPT !.limit = RunLoop([limit EXCEPT !.concurrency = c])])

\* task function j fulfils: the then callback takes its promise out of
\* executing and the promise fulfils
JobFulfils(j) ==
  /\ limit.job[j] = "pending"
  /\ Becomes([Cur EXCEPT
       !.limit.job[j] = "fulfilled",
       !.limit.executing = Splice(@, j),
       !.limit.race = IF @ = "pending" /\ j \in limit.raced
                      THEN "fulfilled" ELSE @])

\* task function j rejects: the then callback is not called, the promise
\* stays in executing and rejects
JobRejects(j) ==
  /\ limit.job[j] = "pending"
  /\ Becomes([Cur EXCEPT
       !.limit.job[j] = "rejected",
       !.limit.race = IF @ = "pending" /\ j \in limit.raced
                      THEN "rejected" ELSE @])

\* await Promise.race(executing) is over: the loop goes on, or the function
\* throws
RaceSettles ==
  /\ limit.pc = "racing"
  /\ limit.race \in {"fulfilled", "rejected"}
  /\ Becomes([Cur EXCEPT
       !.limit = IF limit.race = "fulfilled"
                 THEN RunLoop([limit EXCEPT !.race = "none", !.raced = {}])
                 ELSE [limit EXCEPT !.pc = "thrown", !.race = "none",
                                    !.raced = {}]])

\* Promise.all(results) settles: rejected with the first rejection, else
\* fulfilled with the results in the order of results
AllSettles ==
  /\ limit.pc = "all"
  /\ \/ \E j \in Jobs : limit.job[j] = "rejected"
     \/ \A j \in Jobs : limit.job[j] = "fulfilled"
  /\ Becomes([Cur EXCEPT
       !.limit.pc = IF \E j \in Jobs : limit.job[j] = "rejected"
                    THEN "rejected" ELSE "fulfilled",
       !.limit.output = IF \E j \in Jobs : limit.job[j] = "rejected"
                        THEN << >> ELSE [j \in Jobs |-> j]])

----------------------------------------------------------------------------
\* ConcurrencyUtils.createTaskPool(poolSize); the task function of job j
\* fulfils with j or rejects with j

\* processQueue up to its await: the first worker that is not busy takes
\* the head of the queue and calls its task function
ProcessQueue(p) ==
  LET free == (1..p.poolSize) \ p.busy
  IN IF free = {} \/ p.queue = << >> THEN p
     ELSE LET w == Min(free)
              j == Head(p.queue)
          IN [p EXCEPT !.queue = Tail(@), !.busy = @ \cup {w},
                       !.job[j].body = "pending", !.job[j].worker = w,
                       !.job[j].started = @ + 1]

\* finally without its call of processQueue
PoolFinally_NoNext(p, w) == [p EXCEPT !.busy = @ \ {w}]

\* finally { availableWorker.busy = false; this.processQueue() }
PoolFinally(p, w) == ProcessQueue([p EXCEPT !.busy = @ \ {w}])

CreateTaskPool(n) ==
  /\ pool.poolSize = 0
  /\ Becomes([Cur EXCEPT !.pool.poolSize = n])

\* taskPool.execute(task), the jobs given in their order
Execute(j) ==
  /\ pool.poolSize > 0
  /\ pool.job[j].promise = "none"
  /\ \A k \in Jobs : k < j => pool.job[k].promise # "none"
  /\ Becomes([Cur EXCEPT
       !.pool = ProcessQueue([pool EXCEPT !.job[j].promise = "pending",
                                          !.queue = Append(@, j)])])

\* the task function of job j fulfils: resolve(result), finally
PoolJobFulfils(j) ==
  /\ pool.job[j].body = "pending"
  /\ Becomes([Cur EXCEPT
       !.pool = PoolFinally([pool EXCEPT !.job[j].body = "fulfilled",
                                         !.job[j].promise = "resolved",
                                         !.job[j].value = j],
                            pool.job[j].worker)])

\* the task function of job j rejects: reject(error), finally
PoolJobRejects(j) ==
  /\ pool.job[j].body = "pending"
  /\ Becomes([Cur EXCEPT
       !.pool = PoolFinally([pool EXCEPT !.job[j].body = "rejected",
                                         !.job[j].promise = "rejected",
                                         !.job[j].value = j],
                            pool.job[j].worker)])

----------------------------------------------------------------------------
\* Continuations.  executeTask knows its task and so the task's id.

\* the body's promise fulfils: runTaskWithRetry returns, executeTask goes on
BodyResolves(h) ==
  /\ tasks[h].pc = "body"
  /\ Becomes(FinishSuccess(Cur, h, tasks[h].id))

\* the body's promise rejects (or the body throws)
BodyRejects(h) ==
  /\ tasks[h].pc = "body"
  /\ Becomes(AttemptFailed(Cur, h, tasks[h].id))

\* the retry delay is over: attempt++ and the loop goes round
DelayElapsed(h) ==
  /\ tasks[h].pc = "delay"
  /\ Becomes(RunAttempt([Cur EXCEPT !.tasks[h].attempt = @ + 1], h, tasks[h].id))

\* the timeout set by executeTask fires: abortController.abort().  On the
\* failure path the timer is never cleared, but once executeTask has
\* finished nothing reads the signal: that late firing is left out.
TimerFires(h) ==
  /\ tasks[h].timer = "armed"
  /\ tasks[h].pc \in {"body", "delay"}
  /\ Becomes([Cur EXCEPT !.tasks[h].timer = "fired", !.tasks[h].aborted = TRUE])

\* the task's onSuccess and onComplete return or throw
SuccessCallbacksReturn(h) ==
  /\ tasks[h].pc = "onSuccess"
  /\ Becomes(SuccessCallbacksDone(Cur, h, tasks[h].id))

\* the task's onError and onComplete return or throw
FailureCallbacksReturn(h) ==
  /\ tasks[h].pc = "onError"
  /\ Becomes(FailureCallbacksDone(Cur, h, tasks[h].id))

----------------------------------------------------------------------------

Next ==
  \/ \E h \in Tasks, d \in DescriptorChoices : AddTask(h, d)
  \/ Start
  \/ Pause
  \/ Resume
  \/ Stop
  \/ \E id \in Ids : CancelTask(id)
  \/ ClearQueue
  \/ \E h \in Tasks : BodyResolves(h)
  \/ \E h \in Tasks : BodyRejects(h)
  \/ \E h \in Tasks : DelayElapsed(h)
  \/ \E h \in Tasks : TimerFires(h)

Spec == Init /\ [][Next]_vars

\* Tasks with observer callbacks on a controller with a short queue.  A
\* callback runs in the middle of executeTask: until it has returned
\* nothing else happens.
NextCallbacks ==
  \/ Idle /\ \E h \in Tasks, d \in CallbackDescriptorChoices : AddTask(h, d)
  \/ Idle /\ Start
  \/ Idle /\ Pause
  \/ Idle /\ Resume
  \/ Idle /\ Stop
  \/ Idle /\ \E id \in Ids : CancelTask(id)
  \/ Idle /\ ClearQueue
  \/ Idle /\ \E h \in Tasks : BodyResolves(h)
  \/ Idle /\ \E h \in Tasks : BodyRejects(h)
  \/ Idle /\ \E h \in Tasks : TimerFires(h)
  \/ \E h \in Tasks : SuccessCallbacksReturn(h)
  \/ \E h \in Tasks : FailureCallbacksReturn(h)

SpecCallbacks == InitCallbacks /\ [][NextCallbacks]_vars

\* Tasks with a retry budget and observer callbacks that return, on a
\* controller nobody stops: bodies fail and succeed as they please.
RetryDescriptorChoices ==
  {[priority |-> NoPriority, retries |-> r, valid |-> "ok", observers |-> "quiet"] :
     r \in 0..MaxRetries}

NextRetry ==
  \/ Idle /\ \E h \in Tasks, d \in RetryDescriptorChoices : AddTask(h, d)
  \/ Idle /\ Start
  \/ Idle /\ \E h \in Tasks : BodyResolves(h)
  \/ Idle /\ \E h \in Tasks : BodyRejects(h)
  \/ Idle /\ \E h \in Tasks : DelayElapsed(h)
  \/ \E h \in Tasks : SuccessCallbacksReturn(h)
  \/ \E h \in Tasks : FailureCallbacksReturn(h)

SpecRetry == Init /\ [][NextRetry]_vars

\* Callers that reuse ids: every descriptor names one of two ids, so that
\* two of three tasks share theirs.
SharedIds == {i \in Ids : i < MaxTasks}

SharedIdDescriptorChoices ==
  {[priority |-> NoPriority, retries |-> 0, valid |-> "ok",
    observers |-> "absent", id |-> i] : i \in SharedIds}

NextSharedIds ==
  \/ \E h \in Tasks, d \in SharedIdDescriptorChoices : AddTask(h, d)
  \/ Start
  \/ Stop
  \/ \E id \in SharedIds : CancelTask(id)
  \/ \E h \in Tasks : BodyResolves(h)
  \/ \E h \in Tasks : BodyRejects(h)

SpecSharedIds == Init /\ [][NextSharedIds]_vars

\* The clock advances between the calls that start, stop, pause and resume
\* a controller.
Tick ==
  /\ now < MaxTime
  /\ Becomes([Cur EXCEPT !.now = @ + 1])

NextClock ==
  \/ Tick
  \/ Start
  \/ Stop
  \/ Pause
  \/ Resume

SpecClock == InitClock /\ [][NextClock]_vars

\* HttpClient.  new HttpClient({retries: n}), and requests with and without
\* a retries option of their own; fetch fulfils, or rejects with an
\* AbortError or with another error.
RequestRetriesChoices ==
  {NoRetries} \cup {[has |-> TRUE, val |-> r] : r \in 0..MaxRetries}

ErrorChoices == {"AbortError", "TypeError"}

RetryDelayChoices == {DefaultRetryDelay, 250}

InitHttp ==
  /\ maxConcurrency = DefaultMaxConcurrency
  /\ maxQueueSize = DefaultMaxQueueSize
  /\ taskQueue = << >>
  /\ runningTasks = EmptyMap
  /\ completedTasks = EmptyMap
  /\ isRunning = FALSE
  /\ isPaused = FALSE
  /\ stats = [totalTasks |-> 0, completedTasks |-> 0, failedTasks |-> 0,
              retriedTasks |-> 0, startTime |-> 0, endTime |-> 0]
  /\ emitted = [taskAdded |-> 0, taskCompleted |-> 0, taskFailed |-> 0]
  /\ eventListeners = << >>
  /\ heard = << >>
  /\ batch = NoBatch
  /\ limit = NotCalled
  /\ pool = NoPool
  /\ tasks = [h \in Tasks |-> Unsubmitted]
  /\ now = 0
  /\ \E n \in 0..MaxRetries, ms \in RetryDelayChoices : http = HttpClientWith(n, ms)

\* request(config) up to await fetch(url, requestConfig)
RequestCall(c, retries) ==
  [c EXCEPT !.pc = "fetch", !.config = retries, !.attempts = @ + 1]

\* a caller's request on a client that is carrying out none
Request(retries) ==
  /\ http.pc \in {"idle", "returned", "thrown"}
  /\ Becomes([Cur EXCEPT
        !.http = RequestCall([@ EXCEPT !.attempts = 0, !.delays = 0,
                                       !.waited = 0, !.error = "none"],
                             retries)])

\* fetch fulfils: the response is handled and returned
FetchFulfils ==
  /\ http.pc = "fetch"
  /\ Becomes([Cur EXCEPT !.http.pc = "returned"])

\* config.retries > 0 && !processedError.name?.includes('AbortError')
ShouldRetry(config, error) == config.has /\ config.val > 0 /\ error # "AbortError"

\* fetch rejects: the catch block of request
FetchRejects(error) ==
  /\ http.pc = "fetch"
  /\ Becomes([Cur EXCEPT
        !.http = IF ShouldRetry(@.config, error)
                 THEN [@ EXCEPT !.pc = "delay"]
                 ELSE [@ EXCEPT !.pc = "thrown", !.error = error]])

\* await this.delay(config.retryDelay || this.retryDelay) is over (the
\* requests have no retryDelay of their own):
\* request({...config, retries: config.retries - 1})
RetryDelayElapsed ==
  /\ http.pc = "delay"
  /\ Becomes([Cur EXCEPT
        !.http = RequestCall([@ EXCEPT !.delays = @ + 1,
                                       !.waited = @ + http.retryDelay],
                             [@.config EXCEPT !.val = @ - 1])])

NextHttp ==
  \/ \E retries \in RequestRetriesChoices : Request(retries)
  \/ FetchFulfils
  \/ \E error \in ErrorChoices : FetchRejects(error)
  \/ RetryDelayElapsed

SpecHttp == InitHttp /\ [][NextHttp]_vars

\* The default instance in the hands of callers who submit tasks and never
\* call start().  Every body would fulfil once invoked, and timers fire.
NextDefault ==
  \/ \E h \in Tasks, d \in DescriptorChoices : AddTask(h, d)
  \/ Pause
  \/ Resume
  \/ Stop

SpecDefault ==
  /\ InitDefault /\ [][NextDefault]_vars
  /\ \A h \in Tasks : WF_vars(BodyResolves(h)) /\ WF_vars(TimerFires(h))

\* A controller with listeners for taskAdded, and tasks submitted with
\* nothing but id and task.
PlainDescriptorChoices ==
  {d \in DescriptorChoices : ~d.priority.has /\ d.retries = 0}

NextEvents ==
  \/ \E l \in Listeners, does \in ListenerChoices : On(l, does)
  \/ \E l \in Listeners : Off(l)
  \/ \E h \in Tasks, d \in PlainDescriptorChoices : AddTask(h, d)
  \/ Start

SpecEvents == Init /\ [][NextEvents]_vars

\* addTasks on a controller with one slot and a short queue; the batch has
\* descriptors with nothing but id and task, and descriptors that lack one
\* of the two.
BatchDescriptorChoices ==
  PlainDescriptorChoices
    \cup {d \in CallbackDescriptorChoices : d.valid # "ok"}

BatchChoices ==
  UNION {[1..n -> BatchDescriptorChoices] : n \in 2..MaxTasks}

NextBatch ==
  \/ \E configs \in BatchChoices : AddTasks(configs)
  \/ Start
  \/ \E id \in Ids : CancelTask(id)
  \/ \E h \in Tasks : BodyResolves(h)
  \/ \E h \in Tasks : BodyRejects(h)
  \/ BatchSettles

SpecBatch == InitCallbacks /\ [][NextBatch]_vars

\* One call of limitConcurrency with task functions that fulfil or reject
\* when they please.
NextLimit ==
  \/ \E c \in LimitChoices : LimitConcurrency(c)
  \/ \E j \in Jobs : JobFulfils(j)
  \/ \E j \in Jobs : JobRejects(j)
  \/ RaceSettles
  \/ AllSettles

SpecLimit == Init /\ [][NextLimit]_vars

\* One task pool; every task function that was called settles.
NextPool ==
  \/ \E n \in PoolChoices : CreateTaskPool(n)
  \/ \E j \in Jobs : Execute(j)
  \/ \E j \in Jobs : PoolJobFulfils(j)
  \/ \E j \in Jobs : PoolJobRejects(j)

SpecPool ==
  /\ Init /\ [][NextPool]_vars
  /\ \A j \in Jobs : WF_vars(PoolJobFulfils(j) \/ PoolJobRejects(j))

\* The timers of the event loop fire; whether a body ever settles, and
\* whether anybody calls the controller, is up to the environment.
FairSpec ==
  /\ Spec
  /\ \A h \in Tasks : WF_vars(TimerFires(h)) /\ WF_vars(DelayElapsed(h))

\* A controller whose taskAdded listeners may remove themselves or one
\* another while the event is being emitted.
NextEmit ==
  \/ \E l \in Listeners, does \in RemovingListenerChoices : On(l, does)
  \/ \E l \in Listeners : Off(l)
  \/ \E h \in Tasks, d \in PlainDescriptorChoices : AddTask(h, d)

SpecEmit == Init /\ [][NextEmit]_vars

\* A controller whose tasks carry nothing but id and task.  The timeout
\* timers fire and every body invocation settles, one way or the other;
\* which calls the controller receives is up to the environment.
NextSettling ==
  \/ \E h \in Tasks, d \in PlainDescriptorChoices : AddTask(h, d)
  \/ Start
  \/ Pause
  \/ Resume
  \/ Stop
  \/ \E id \in Ids : CancelTask(id)
  \/ ClearQueue
  \/ \E h \in Tasks : BodyResolves(h)
  \/ \E h \in Tasks : BodyRejects(h)
  \/ \E h \in Tasks : TimerFires(h)

SettlingSpec ==
  /\ Init /\ [][NextSettling]_vars
  /\ \A h \in Tasks :
        /\ WF_vars(BodyResolves(h) \/ BodyRejects(h))
        /\ WF_vars(TimerFires(h))

----------------------------------------------------------------------------
\* Vocabulary of the properties

\* the queued task object of handle h
QueuedTask(h) == CHOOSE e \in {taskQueue[i] : i \in 1..Len(taskQueue)} : e.h = h

IsQueued(h) == \E i \in 1..Len(taskQueue) : taskQueue[i].h = h

\* this step hands h to executeTask
Dispatched(h) == tasks[h].attempts = 0 /\ tasks'[h].attempts = 1

\* this step ends h's executeTask
FinishesNow(h) == tasks[h].pc # "finished" /\ tasks'[h].pc = "finished"

Live(h) == tasks[h].pc \in {"body", "delay"}

----------------------------------------------------------------------------
\* C1: the running set never holds more than maxConcurrency tasks.
C1_RunningWithinLimit == Cardinality(DOMAIN runningTasks) <= maxConcurrency

\* Both slots taken on a running controller while a task waits in the queue.
C1_Witness ==
  /\ maxConcurrency = 2
  /\ Cardinality(DOMAIN runningTasks) = 2
  /\ isRunning /\ ~isPaused
  /\ taskQueue # << >>

\* C2: a priority-10 task submitted while the controller runs with every
\* slot taken and a priority-0 task waits is dispatched before that task.
C2_HigherPriorityFirst ==
  [][\A g, h \in Tasks :
       (/\ g < h
        /\ IsQueued(g) /\ IsQueued(h)
        /\ QueuedTask(g).priority = Prio(0)
        /\ QueuedTask(h).priority = Prio(10)
        /\ QueuedTask(h).arrivedBlocked)
       => ~(Dispatched(g) /\ tasks'[h].pc = "queued")]_vars

\* C3: the queue is ordered by non-increasing priority, an absent priority
\* counting as 0.
C3_QueueSortedByPriority ==
  \A i, j \in 1..Len(taskQueue) :
    i < j => PriorityOrZero(taskQueue[i].priority)
               >= PriorityOrZero(taskQueue[j].priority)

\* C4: of two queued tasks of equal priority (absent counting as 0) the one
\* submitted later is never dispatched while the earlier one still waits.
C4_EqualPriorityFifo ==
  [][\A g, h \in Tasks :
       (/\ g < h
        /\ IsQueued(g) /\ IsQueued(h)
        /\ PriorityOrZero(QueuedTask(g).priority)
             = PriorityOrZero(QueuedTask(h).priority))
       => ~(Dispatched(h) /\ tasks'[g].pc = "queued")]_vars

\* C5: a task that ends in failure without its signal ever having been
\* aborted (no cancel, stop or timeout) had its body invoked exactly
\* retries + 1 times and its future is rejected; the body is never invoked
\* more than retries + 1 times, nor again once the task has finished.
C5_FailsAfterRetriesPlusOne ==
  [][\A h \in Tasks :
       /\ (/\ Live(h) \/ Dispatched(h)
           /\ FinishesNow(h)
           /\ ~tasks[h].aborted
           /\ completedTasks'[h].success = FALSE)
          => /\ tasks'[h].invoked
                  = (IF Live(h) THEN tasks[h].maxRetries
                     ELSE QueuedTask(h).retries) + 1
             /\ tasks'[h].future = "rejectedFailed"
       /\ Live(h) => tasks'[h].invoked <= tasks[h].maxRetries + 1
       /\ tasks[h].pc = "finished" => tasks'[h].invoked = tasks[h].invoked]_vars

\* A task with two retries has failed for good after three invocations.
C5_Witness ==
  \E h \in Tasks :
    /\ tasks[h].pc = "finished"
    /\ tasks[h].future = "rejectedFailed"
    /\ tasks[h].invoked = 3
    /\ h \in DOMAIN completedTasks /\ ~completedTasks[h].success

\* C6: the retryCount recorded for a finished task is the number of body
\* invocations minus one; attempts is retryCount + 1 and at most
\* retries + 1.
C6_RetryCountIsReattempts ==
  [][\A h \in Tasks :
       (Live(h) /\ FinishesNow(h))
       => /\ completedTasks'[h].retryCount = tasks'[h].invoked - 1
          /\ tasks'[h].attempts = completedTasks'[h].retryCount + 1
          /\ tasks'[h].attempts <= tasks[h].maxRetries + 1]_vars

\* C7: once the timeout of a task has fired while its body is pending, the
\* controller stops waiting for that invocation, whether or not the body
\* ever settles.
C7_TimeoutEndsTheWait ==
  \A h \in Tasks :
    (tasks[h].pc = "body" /\ tasks[h].timer = "fired") ~> (tasks[h].pc # "body")

\* C8: cancelTask on a running task returns true and rejects the task's
\* future as cancelled in that call; the future stays rejected.
C8_CancelRunningRejects ==
  [][/\ \A id \in Ids :
          (id \in DOMAIN runningTasks /\ CancelTask(id))
          => /\ CancelTaskCall(Cur, id).result = TRUE
             /\ tasks'[runningTasks[id]].future = "rejectedCancelled"
     /\ \A h \in Tasks :
          tasks[h].future = "rejectedCancelled"
          => tasks'[h].future = "rejectedCancelled"]_vars

\* C9: cancelTask on a running task of a running, unpaused controller with
\* a non-empty queue dispatches the head of the queue in that call.
C9_CancelDispatchesHead ==
  [][\A id \in Ids :
       (/\ id \in DOMAIN runningTasks
        /\ isRunning /\ ~isPaused
        /\ taskQueue # << >>
        /\ CancelTask(id))
       => Dispatched(Head(taskQueue).h)]_vars

\* C10: cancelTask on a queued task takes it out of the queue, rejects its
\* future as cancelled and returns true; its body is never invoked.
C10_CancelQueued ==
  [][/\ \A id \in Ids :
          (/\ id \notin DOMAIN runningTasks
           /\ QueueIndex(taskQueue, id) # 0
           /\ CancelTask(id))
          => LET h == taskQueue[QueueIndex(taskQueue, id)].h
             IN /\ CancelTaskCall(Cur, id).result = TRUE
                /\ \A i \in 1..Len(taskQueue') : taskQueue'[i].h # h
                /\ Len(taskQueue') = Len(taskQueue) - 1
                /\ tasks'[h].future = "rejectedCancelled"
                /\ tasks'[h].pc = "cancelled"
     /\ \A h \in Tasks :
          tasks[h].pc = "cancelled"
          => /\ tasks'[h].pc = "cancelled"
             /\ tasks'[h].invoked = 0
             /\ tasks'[h].future = "rejectedCancelled"]_vars

\* A queued task was cancelled, and a task submitted after it has since
\* run to its end on a controller that still has a free slot.
C10_Witness ==
  \E h, g \in Tasks :
    /\ h < g
    /\ tasks[h].pc = "cancelled"
    /\ tasks[h].future = "rejectedCancelled"
    /\ tasks[h].invoked = 0
    /\ tasks[g].pc = "finished"
    /\ isRunning /\ ~isPaused
    /\ Cardinality(DOMAIN runningTasks) < maxConcurrency

\* C11: an accepted task that was neither cancelled nor cleared is in
\* exactly one of the queue, the running set and the completed map, at
\* every moment a caller, a callback or a listener can look.
C11_ExactlyOnePlace ==
  \A h \in Tasks :
    (/\ tasks[h].pc \notin {"unsubmitted", "rejected", "cancelled", "cleared"}
     /\ ~tasks[h].cancelled)
    => Cardinality({p \in {"queue", "running", "completed"} :
                      \/ p = "queue" /\ IsQueued(h)
                      \/ p = "running" /\ h \in DOMAIN runningTasks
                      \/ p = "completed" /\ h \in DOMAIN completedTasks}) = 1

\* C12: stop() leaves isRunning and isPaused false, aborts the signal of
\* every task in the running set and changes neither the queue, the running
\* set nor the completed map; a stopped controller dispatches no task
\* until start() is called.
C12_StopFrame ==
  [][/\ Stop
          => /\ ~isRunning' /\ ~isPaused'
             /\ \A id \in DOMAIN runningTasks : tasks'[runningTasks[id]].aborted
             /\ taskQueue' = taskQueue
             /\ runningTasks' = runningTasks
             /\ completedTasks' = completedTasks
     /\ \A h \in Tasks : (Dispatched(h) /\ ~isRunning) => Start]_vars

\* A stopped controller with a task waiting, a free slot, and a task in
\* the running set whose signal stop() aborted.
C12_Witness ==
  /\ ~isRunning /\ ~isPaused
  /\ taskQueue # << >>
  /\ Cardinality(DOMAIN runningTasks) < maxConcurrency
  /\ \E id \in DOMAIN runningTasks :
       tasks[runningTasks[id]].pc = "body" /\ tasks[runningTasks[id]].aborted

C14_StatusIsSettledResult ==
  \A h \in Tasks :
    (tasks[h].pc = "finished" /\ tasks[h].future \in {"resolved", "rejectedFailed"})
    => /\ GetTaskStatus(Cur, h)
            = [status |-> "completed", result |-> tasks[h].settledWith]
       /\ tasks[h].settledWith.id = h
       /\ tasks[h].settledWith.success = (tasks[h].future = "resolved")

\* One task resolved and one rejected with a failure result, the latter
\* after its body had succeeded (both counters counted it): the completed
\* map was written twice for it.
C14_Witness ==
  \E g, h \in Tasks :
    /\ tasks[g].pc = "finished" /\ tasks[g].future = "resolved"
    /\ tasks[h].pc = "finished" /\ tasks[h].future = "rejectedFailed"
    /\ GetTaskStatus(Cur, h).status = "completed"
    /\ ~GetTaskStatus(Cur, h).result.success
    /\ stats.completedTasks = 2 /\ stats.failedTasks = 1
    /\ Idle

C16_QueueFullRejects ==
  /\ [][\A h \in Tasks, d \in CallbackDescriptorChoices :
         (/\ d.valid = "ok"
          /\ Len(taskQueue) >= maxQueueSize
          /\ AddTask(h, d))
         => /\ tasks'[h].future = "rejectedQueueFull"
            /\ tasks'[h].invoked = 0
            /\ \A g \in Tasks \ {h} : tasks'[g] = tasks[g]
            /\ UNCHANGED <<taskQueue, runningTasks, completedTasks, stats,
                           emitted, isRunning, isPaused>>]_vars
  /\ [](Len(taskQueue) <= maxQueueSize)

\* The queue is full and a task submitted to it was turned away: two
\* tasks were counted and announced, not three.
C16_Witness ==
  /\ Len(taskQueue) = maxQueueSize
  /\ \E h \in Tasks : tasks[h].pc = "rejected"
                      /\ tasks[h].future = "rejectedQueueFull"
  /\ stats.totalTasks = maxQueueSize
  /\ emitted.taskAdded = maxQueueSize

\* C17: addTask with a descriptor that lacks id or task rejects with the
\* validation error and changes nothing else: queue, totalTasks and running
\* set stay as they were, taskAdded is not emitted and no task is
\* dispatched.
C17_InvalidRejected ==
  [][\A h \in Tasks, d \in CallbackDescriptorChoices :
       (d.valid # "ok" /\ AddTask(h, d))
       => /\ tasks'[h].future = "rejectedInvalid"
          /\ tasks'[h].invoked = 0
          /\ \A g \in Tasks : ~Dispatched(g)
          /\ \A g \in Tasks \ {h} : tasks'[g] = tasks[g]
          /\ UNCHANGED <<taskQueue, runningTasks, completedTasks, stats,
                         emitted, isRunning, isPaused>>]_vars

\* An invalid descriptor was turned away by a running, unpaused controller
\* that had a task waiting and a free slot: the scheduler would have
\* dispatched had it been called.
C17_Witness ==
  /\ \E h \in Tasks : tasks[h].pc = "rejected"
                      /\ tasks[h].future = "rejectedInvalid"
  /\ isRunning /\ ~isPaused
  /\ taskQueue # << >>
  /\ Cardinality(DOMAIN runningTasks) < maxConcurrency
  /\ stats.totalTasks = 2 /\ emitted.taskAdded = 2

\* C18: when the body has succeeded and onSuccess or onComplete throws,
\* the task is still a success: its future resolves, the success counter
\* stays at its one increment, failedTasks is not incremented, onError is
\* not invoked and the completed map keeps the success result.
C18_ThrowingObserverKeepsSuccess ==
  [][\A h \in Tasks :
       (/\ tasks[h].pc = "onSuccess"
        /\ tasks[h].observers \in {"onSuccessThrows", "onCompleteThrows"}
        /\ SuccessCallbacksReturn(h))
       => /\ tasks'[h].future = "resolved"
          /\ tasks'[h].settledWith.success
          /\ stats'.completedTasks = stats.completedTasks
          /\ stats'.failedTasks = stats.failedTasks
          /\ tasks'[h].pc # "onError"
          /\ completedTasks'[h].success]_vars

\* C19: when a task has exhausted its retries and onError or onComplete
\* throws, its future is still rejected with the failure TaskResult,
\* taskFailed is still emitted, the slot is released and the scheduler is
\* called again.
C19_ThrowingObserverKeepsFailure ==
  [][\A h \in Tasks :
       (/\ tasks[h].pc = "onError"
        /\ tasks[h].caught = "body"
        /\ tasks[h].observers \in {"onErrorThrows", "onCompleteThrows"}
        /\ FailureCallbacksReturn(h))
       => /\ tasks'[h].future = "rejectedFailed"
          /\ tasks'[h].settledWith = completedTasks[h]
          /\ ~completedTasks'[h].success
          /\ emitted'.taskFailed = emitted.taskFailed + 1
          /\ h \notin DOMAIN runningTasks'
          /\ (isRunning /\ ~isPaused /\ taskQueue # << >>
               /\ DOMAIN runningTasks \subseteq {h})
              => Dispatched(Head(taskQueue).h)]_vars

\* C20: while the controller is running and not paused, and between its
\* calls, the queue is never non-empty with fewer than maxConcurrency tasks
\* in the running set; start(), and resume() on a running controller, with k
\* queued tasks and s free slots dispatch min(k, s) tasks.
C20_NoIdleSlotWithWork ==
  /\ []((isRunning /\ ~isPaused /\ Idle)
         => ~(taskQueue # << >>
              /\ Cardinality(DOMAIN runningTasks) < maxConcurrency))
  /\ [][(Start \/ (isRunning /\ Resume))
         => LET k == Len(taskQueue)
                s == maxConcurrency - Cardinality(DOMAIN runningTasks)
            IN Cardinality({h \in Tasks : Dispatched(h)})
                 = (IF k <= s THEN k ELSE s)]_vars

\* C21: a task submitted while the controller is not running or is paused
\* is only queued, with its body not invoked and its future pending; and as
\* long as no step leaves the controller running and unpaused a queued
\* task stays so, unless cancelTask or clearQueue takes it out.
C21_QueuedUntilRunning ==
  [][/\ \A h \in Tasks, d \in DescriptorChoices :
          ((~isRunning \/ isPaused) /\ AddTask(h, d))
          => /\ IsQueued(h)'
             /\ tasks'[h].pc = "queued"
             /\ tasks'[h].invoked = 0
             /\ tasks'[h].future = "pending"
     /\ \A h \in Tasks :
          (tasks[h].pc = "queued" /\ ~(isRunning' /\ ~isPaused'))
          => /\ tasks'[h].invoked = 0
             /\ \/ IsQueued(h)' /\ tasks'[h].future = "pending"
                \/ tasks'[h].pc \in {"cancelled", "cleared"}]_vars

\* A paused controller with a free slot holds a task that was submitted
\* during the pause, after an earlier task had already finished.
C21_Witness ==
  \E g, h \in Tasks :
    /\ isRunning /\ isPaused
    /\ Cardinality(DOMAIN runningTasks) < maxConcurrency
    /\ tasks[g].pc = "finished"
    /\ IsQueued(h) /\ ~QueuedTask(h).arrivedBlocked
    /\ tasks[h].invoked = 0 /\ tasks[h].future = "pending"

\* C22: a task added to the default instance by a caller who never calls
\* start() is executed and its promise eventually resolves.
C22_DefaultInstanceRuns ==
  \A h \in Tasks :
    (tasks[h].future = "pending")
      ~> (tasks[h].invoked >= 1 /\ tasks[h].future = "resolved")

\* C23: emit invokes every listener registered for the event exactly once,
\* in registration order, whatever a listener does; and an addTask whose
\* taskAdded listeners throw leaves the queue, the running set, the
\* completed map and the counters as it does without listeners.
C23_EmitCallsEveryListener ==
  [][\A h \in Tasks, d \in PlainDescriptorChoices :
       AddTask(h, d)
       => LET quiet == AddTaskCall([Cur EXCEPT !.eventListeners = << >>], h, d)
          IN /\ heard' = [i \in 1..Len(eventListeners) |-> eventListeners[i].id]
             /\ taskQueue' = quiet.taskQueue
             /\ runningTasks' = quiet.runningTasks
             /\ completedTasks' = quiet.completedTasks
             /\ stats' = quiet.stats]_vars

\* C24: addTasks submits every descriptor, a rejected member not keeping
\* a later one from being queued or dispatched; its promise is never
\* rejected, and when it fulfils it holds one outcome per descriptor, in
\* input order, each the outcome of that member's own promise.
C24_BatchSettlesAll ==
  /\ [][\A configs \in BatchChoices :
         AddTasks(configs)
         => /\ batch'.size = Len(configs)
            /\ \A i \in 1..Len(configs) :
                 LET t == tasks'[batch'.first + i - 1]
                 IN IF configs[i].valid # "ok"
                    THEN t.future = "rejectedInvalid"
                    ELSE \/ t.pc \in {"queued", "body"} /\ t.future = "pending"
                         \/ /\ t.future = "rejectedQueueFull"
                            /\ Len(taskQueue') = maxQueueSize]_vars
  /\ [](/\ batch.future # "rejected"
        /\ batch.future = "fulfilled"
           => /\ Len(batch.outcomes) = batch.size
              /\ \A i \in 1..batch.size :
                   LET t == tasks[batch.first + i - 1]
                   IN /\ t.future \notin {"none", "pending"}
                      /\ batch.outcomes[i].value = t.future
                      /\ (batch.outcomes[i].status = "fulfilled")
                           = (t.future = "resolved"))

\* The batch has fulfilled with three outcomes: the first member was turned
\* away at validation, the second ran and resolved, the third ran and
\* failed.
C24_Witness ==
  /\ batch.future = "fulfilled" /\ batch.size = 3
  /\ batch.outcomes[1].value = "rejectedInvalid"
  /\ batch.outcomes[2].status = "fulfilled"
  /\ tasks[batch.first + 1].invoked = 1
  /\ batch.outcomes[3].value = "rejectedFailed"
  /\ tasks[batch.first + 2].invoked = 1

\* C25: cancelTask of an id that is neither running nor queued (never
\* submitted, or already completed) returns false and leaves the controller
\* as it is.
C25_CancelAbsentIsNoOp ==
  \A id \in Ids :
    (id \notin DOMAIN runningTasks /\ QueueIndex(taskQueue, id) = 0)
    => /\ CancelTaskCall(Cur, id).result = FALSE
       /\ CancelTaskCall(Cur, id).state = Cur

\* One id is in the completed map and another was never submitted, while
\* the controller has a task running that a wrong cancel could hit.
C25_Witness ==
  /\ \E id \in Ids :
       /\ id \in DOMAIN completedTasks
       /\ id \notin DOMAIN runningTasks
       /\ QueueIndex(taskQueue, id) = 0
  /\ \E id \in Ids : tasks[id].pc = "unsubmitted"
  /\ runningTasks # EmptyMap

\* C26: limitConcurrency(tasks, c) never has more than c task functions
\* started and not settled, calls no task function twice, has called every
\* one of them by the time its promise settles, and returns the results in
\* the order of the tasks.
C26_LimitConcurrency ==
  limit.pc # "idle"
  => /\ Cardinality({j \in Jobs : limit.job[j] = "pending"}) <= limit.concurrency
     /\ \A j \in Jobs : limit.started[j] <= 1
     /\ limit.pc \in {"fulfilled", "rejected", "thrown"}
        => \A j \in Jobs : limit.started[j] = 1
     /\ limit.pc = "fulfilled" => limit.output = [j \in Jobs |-> j]

\* C27: a pool of n workers never has more than n task functions called
\* and not settled; every task given to execute() is eventually started,
\* once, and its promise settled, resolved with the task's own result or
\* rejected with its own error, provided every task function settles.
C27_TaskPool ==
  /\ [](/\ Cardinality({j \in Jobs : pool.job[j].body = "pending"})
             <= pool.poolSize
        /\ \A j \in Jobs :
             /\ pool.job[j].started <= 1
             /\ pool.job[j].promise \in {"resolved", "rejected"}
                => /\ pool.job[j].started = 1
                   /\ pool.job[j].value = j
                   /\ (pool.job[j].promise = "resolved")
                        = (pool.job[j].body = "fulfilled"))
  /\ \A j \in Jobs :
       (pool.job[j].promise = "pending")
         ~> (pool.job[j].promise \in {"resolved", "rejected"})

\* A pool of one worker has run all the jobs, one after the other; one of
\* them was rejected and the last one resolved.
C27_Witness ==
  /\ pool.poolSize = 1
  /\ \A j \in Jobs : pool.job[j].promise \in {"resolved", "rejected"}
  /\ \E j \in Jobs : pool.job[j].promise = "rejected"
  /\ pool.job[MaxJobs].promise = "resolved" /\ pool.job[MaxJobs].value = MaxJobs
  /\ pool.busy = {} /\ pool.queue = << >>

\* C28: every attempt of a task gets a signal that is not aborted and a
\* timer of its own: after a timeout fired during one attempt, the next
\* attempt starts with an unaborted signal and a running timer, and the
\* body is invoked again.
C28_FreshSignalPerAttempt ==
  [][\A h \in Tasks :
       (/\ tasks[h].pc = "delay"
        /\ tasks[h].timer = "fired"
        /\ DelayElapsed(h))
       => /\ tasks'[h].pc = "body"
          /\ tasks'[h].invoked = tasks[h].invoked + 1
          /\ ~tasks'[h].aborted
          /\ tasks'[h].timer = "armed"]_vars

\* C29: an attempt whose timer fired before its body settled is a failed
\* attempt: when the body returns a value after the timeout, the task does
\* not finish with success: true.
C29_LateResultIsNoSuccess ==
  [][\A h \in Tasks :
       (/\ tasks[h].pc = "body"
        /\ tasks[h].timer = "fired"
        /\ BodyResolves(h))
       => /\ tasks'[h].future # "resolved"
          /\ ~(h \in DOMAIN completedTasks' /\ completedTasks'[h].success)]_vars

\* C30: no task is handed to executeTask twice: a task is in the queue at
\* most once, leaves it when it is dispatched and never comes back, and
\* holds at most one entry of the running set; the first invocation of its
\* body happens in the step that dispatches it and in no other.
C30_DispatchedOnce ==
  /\ [](\A h \in Tasks :
          /\ tasks[h].attempts <= 1
          /\ Cardinality({i \in 1..Len(taskQueue) : taskQueue[i].h = h}) <= 1
          /\ Cardinality({id \in DOMAIN runningTasks : runningTasks[id] = h}) <= 1
          /\ tasks[h].attempts = 1 => ~IsQueued(h))
  /\ [][\A h \in Tasks :
         /\ (tasks[h].invoked = 0 /\ tasks'[h].invoked > 0)
            => Dispatched(h) /\ tasks'[h].invoked = 1
         /\ tasks[h].attempts = 1 => tasks'[h].attempts = 1]_vars

\* Every task submitted to a two-slot controller has finished after one
\* dispatch, and each is counted once.
C30_Witness ==
  /\ maxConcurrency = 2
  /\ \A h \in Tasks : tasks[h].pc = "finished" /\ tasks[h].attempts = 1
  /\ Cardinality(DOMAIN completedTasks) = MaxTasks
  /\ stats.totalTasks = MaxTasks
  /\ stats.completedTasks + stats.failedTasks = MaxTasks

\* C31: while the controller is paused no task leaves the queue for the
\* running set; pause() changes nothing but the paused flag, so no running
\* task's signal is aborted by it; a task whose body settles while the
\* controller is paused ends with the outcome of that body (fulfilled: a
\* success record, rejected on its last attempt: a failure record) stored in
\* the completed map; and resume() on a running controller with a free slot
\* dispatches the head of the queue.
C31_PausedNoDispatchNoAbort ==
  [][ /\ \A h \in Tasks : Dispatched(h) => ~isPaused'
      /\ Pause =>
            /\ \A h \in Tasks : tasks'[h] = tasks[h]
            /\ runningTasks' = runningTasks
            /\ taskQueue' = taskQueue
            /\ completedTasks' = completedTasks
      /\ \A h \in Tasks :
            isPaused /\ isPaused' /\ Live(h) /\ FinishesNow(h) /\ ~tasks[h].aborted =>
              /\ h \in DOMAIN completedTasks'
              /\ BodyResolves(h) =>
                    completedTasks'[h].success /\ tasks'[h].future = "resolved"
              /\ BodyRejects(h) =>
                    ~completedTasks'[h].success /\ tasks'[h].future = "rejectedFailed"
              /\ taskQueue' = taskQueue
      /\ ( /\ Resume
           /\ isRunning
           /\ taskQueue # << >>
           /\ Cardinality(DOMAIN runningTasks) < maxConcurrency )
          => Dispatched(Head(taskQueue).h) /\ ~isPaused'
    ]_vars

\* A paused running controller with one slot: the task that held the slot
\* has finished with a success record and nothing is executing, while a task
\* that arrived when the slot was taken is still in the queue.
C31_Witness ==
  /\ isRunning /\ isPaused
  /\ maxConcurrency = 1
  /\ runningTasks = EmptyMap
  /\ \A h \in Tasks : ~Live(h)
  /\ \E h \in Tasks : tasks[h].pc = "finished"
  /\ \A h \in Tasks : tasks[h].pc = "finished" =>
        /\ tasks[h].future = "resolved"
        /\ h \in DOMAIN completedTasks /\ completedTasks[h].success
  /\ \E i \in 1..Len(taskQueue) : taskQueue[i].arrivedBlocked

\* the number of times the body of h has been invoked again after its first
\* invocation
Reinvocations(h) == IF tasks[h].invoked > 0 THEN tasks[h].invoked - 1 ELSE 0

RECURSIVE SumOver(_, _)
SumOver(f, S) ==
  IF S = {} THEN 0
  ELSE LET x == CHOOSE y \in S : TRUE IN f[x] + SumOver(f, S \ {x})

\* C33: stats.retriedTasks counts the re-invocations of task bodies: it is
\* the number of re-invocations made so far plus one for each task that is
\* waiting out the delay before its next invocation, so a task that finishes
\* after m invocations of its body has contributed m - 1, and an iteration
\* of the retry loop that does not invoke the body contributes nothing.
C33_RetriedCountsReinvocations ==
  stats.retriedTasks =
    SumOver([h \in Tasks |-> Reinvocations(h)], Tasks)
      + Cardinality({h \in Tasks : tasks[h].pc = "delay"})

\* C37: in every getStats() snapshot the four counts completedTasks,
\* failedTasks, queueSize and runningTasks add up to at most totalTasks:
\* each accepted task is counted in at most one of them.
C37_SnapshotCountsWithinTotal ==
  LET snapshot == GetStats(Cur)
  IN snapshot.completedTasks + snapshot.failedTasks
       + snapshot.queueSize + snapshot.runningTasks <= snapshot.totalTasks

\* C35: with timers firing and every body invocation settling, a queued task
\* is eventually dispatched or rejected by cancelTask or clearQueue, and a
\* pending future eventually settles, unless the controller is stopped or
\* paused in the meantime: on a controller that stays running and unpaused
\* from some point on, every accepted task is dispatched and settles.
C35_EveryTaskSettles ==
  \A h \in Tasks :
     /\ IsQueued(h) ~>
           (tasks[h].attempts > 0 \/ tasks[h].future # "pending"
              \/ ~isRunning \/ isPaused)
     /\ (tasks[h].future = "pending") ~>
           (tasks[h].future # "pending" \/ ~isRunning \/ isPaused)

\* Every accepted task has been dispatched and its future has settled, on a
\* running controller whose one slot made two of them wait in the queue.
C35_Witness ==
  /\ isRunning /\ ~isPaused
  /\ maxConcurrency = 1
  /\ stats.totalTasks = MaxTasks
  /\ \A h \in Tasks : tasks[h].attempts = 1 /\ tasks[h].pc = "finished"
                          /\ tasks[h].future \in {"resolved", "rejectedFailed"}

\* C34: when a body fulfils, on whichever attempt, executeTask records a
\* success whose data is the value of that invocation and, once the
\* callbacks have returned, resolves the future with it; the failed attempts
\* before it leave failedTasks and the taskFailed count alone and do not
\* reach onError: onError is entered only when the last attempt rejects, and
\* failedTasks and taskFailed count only the tasks that ended that way.
C34_SuccessAfterRetries ==
  /\ [][ \A h \in Tasks :
           /\ (tasks[h].pc = "body" /\ BodyResolves(h)) =>
                 /\ tasks'[h].pc = "onSuccess"
                 /\ completedTasks'[h].success
                 /\ completedTasks'[h].data = tasks[h].invoked
                 /\ stats'.failedTasks = stats.failedTasks
           /\ (tasks[h].pc = "onSuccess" /\ SuccessCallbacksReturn(h)) =>
                 /\ tasks'[h].future = "resolved"
                 /\ tasks'[h].settledWith.success
                 /\ tasks'[h].settledWith.data = tasks[h].invoked
                 /\ stats'.failedTasks = stats.failedTasks
                 /\ emitted'.taskFailed = emitted.taskFailed
           /\ (tasks[h].pc = "body" /\ BodyRejects(h)
                  /\ tasks[h].attempt < tasks[h].maxRetries) =>
                 /\ tasks'[h].pc = "delay"
                 /\ stats'.failedTasks = stats.failedTasks
                 /\ emitted'.taskFailed = emitted.taskFailed
           /\ (tasks[h].pc # "onError" /\ tasks'[h].pc = "onError") =>
                 tasks[h].pc = "body" /\ tasks[h].attempt = tasks[h].maxRetries
      ]_vars
  /\ [](/\ stats.failedTasks =
             Cardinality({h \in Tasks : tasks[h].pc = "onError"
                                          \/ tasks[h].future = "rejectedFailed"})
         /\ emitted.taskFailed =
             Cardinality({h \in Tasks : tasks[h].future = "rejectedFailed"}))

\* A task whose body rejected twice and fulfilled on the third invocation:
\* its future is resolved with the third value and no failure is counted.
C34_Witness ==
  \E h \in Tasks :
     /\ tasks[h].pc = "finished"
     /\ tasks[h].invoked = 3
     /\ tasks[h].future = "resolved"
     /\ tasks[h].settledWith.success /\ tasks[h].settledWith.data = 3
     /\ stats.failedTasks = 0 /\ emitted.taskFailed = 0
     /\ stats.retriedTasks >= 2

\* C32: getTaskStatus(id) answers 'running' when the id is in the running
\* set, otherwise 'completed' with the stored result when it is in the
\* completed map, otherwise 'queued' when a queued task has the id,
\* otherwise null, and leaves the controller as it was; so an id that was
\* resubmitted after it completed reports the earlier result while the new
\* task waits in the queue.
C32_StatusLookupOrder ==
  \A id \in Ids :
     LET call == GetTaskStatusCall(Cur, id)
         running == id \in DOMAIN runningTasks
         completed == id \in DOMAIN completedTasks
         queued == \E i \in 1..Len(taskQueue) : taskQueue[i].id = id
     IN /\ call.state = Cur
        /\ running => call.result = [status |-> "running"]
        /\ (~running /\ completed) =>
              call.result = [status |-> "completed", result |-> completedTasks[id]]
        /\ (~running /\ ~completed /\ queued) => call.result = [status |-> "queued"]
        /\ (~running /\ ~completed /\ ~queued) => call.result = [status |-> "null"]

\* An id whose first task has finished and is in the completed map, while a
\* second task submitted under the same id waits in the queue.
C32_Witness ==
  \E g, h \in Tasks :
     /\ g # h /\ tasks[g].id = tasks[h].id
     /\ tasks[g].pc = "finished" /\ tasks[g].future = "resolved"
     /\ IsQueued(h)
     /\ tasks[g].id \notin DOMAIN runningTasks
     /\ tasks[g].id \in DOMAIN completedTasks
     /\ GetTaskStatus(Cur, tasks[h].id).status = "completed"

\* C36: also when tasks share an id, the bodies that have been dispatched
\* and are neither settled nor aborted never outnumber maxConcurrency, and
\* a task that finishes leaves the running-set entry of every other
\* executing task in place.
C36_SharedIdWithinLimit ==
  /\ [](Cardinality({h \in Tasks : Live(h) /\ ~tasks[h].aborted}) <= maxConcurrency)
  /\ [][ \A g, h \in Tasks :
           ( /\ g # h
             /\ FinishesNow(h)
             /\ Live(g)
             /\ \E id \in DOMAIN runningTasks : runningTasks[id] = g )
           => \E id \in DOMAIN runningTasks' : runningTasks'[id] = g
      ]_vars

\* C38: the duration getStats() reports is never negative, and between two
\* states in which the controller is running it does not decrease, also
\* when the controller had been stopped and started again.
C38_DurationMonotonic ==
  /\ [](GetStats(Cur).duration >= 0)
  /\ [][ (isRunning /\ isRunning') =>
            GetStats(Cur)'.duration >= GetStats(Cur).duration ]_vars

\* what an emission invokes when it goes through the listeners registered
\* at its start, one turn each, and skips those removed before their turn
RECURSIVE EachOnce(_, _, _, _)
EachOnce(snapshot, k, listeners, called) ==
  IF k > Len(snapshot) THEN called
  ELSE IF ListenerIndex(listeners, snapshot[k].id) = 0
       THEN EachOnce(snapshot, k + 1, listeners, called)
  ELSE EachOnce(snapshot, k + 1, ListenerRuns(listeners, snapshot[k]),
                Append(called, snapshot[k].id))

\* C39: one emit('taskAdded') invokes, in registration order and once each,
\* exactly the listeners that were registered when it started and have not
\* been removed before their turn, also when a listener calls off() on
\* itself or on another listener.
C39_EmitSkipsNoListener ==
  [][\A h \in Tasks, d \in PlainDescriptorChoices :
       AddTask(h, d)
       => heard' = EachOnce(eventListeners, 1, eventListeners, << >>)]_vars

\* C40: a request without a retries option of its own, made through a
\* client constructed with retries = n, that is thrown with an error other
\* than an abort has been attempted n + 1 times with n retry delays of the
\* client's retryDelay in between; and a fetch that rejects with an AbortError is not retried: the
\* request throws at once.
C40_ClientRetriesApply ==
  /\ []((http.pc = "thrown" /\ http.error # "AbortError" /\ ~http.config.has)
          => /\ http.attempts = http.retries + 1
             /\ http.delays = http.retries
             /\ http.waited = http.retries * http.retryDelay)
  /\ [][ (http.pc = "fetch" /\ FetchRejects("AbortError"))
            => (http'.pc = "thrown" /\ http'.attempts = http.attempts) ]_vars

====
